---------------------------- MODULE Spec2Model ----------------------------
(***************************************************************************)
(* UDP transport of the DNS proxy (src/proxy/server_udp.go).               *)
(*                                                                         *)
(*   Spec         the ingestion loops (udpPacketLoop), the handling tasks  *)
(*                (udpHandlePacket), the concurrency gate and the shutdown *)
(*                writer, interleaved.                                     *)
(*   SpecFair     Spec with the scheduler's fairness and resolver calls    *)
(*                that return.                                             *)
(*   SpecShutdown Spec with the scheduler's fairness, closed sockets that  *)
(*                fail their reads, and resolver calls that may hang.      *)
(*   SpecRespond  invocations of respondUDP on every outcome of the encode *)
(*                and of the socket write.                                 *)
(*   SpecSetup    createUDPListeners and udpCreate on every outcome of the *)
(*                bind and of the two socket settings.                     *)
(***************************************************************************)
EXTENDS Integers, Sequences, FiniteSets, TLC

\* ------------------------------------------------------------------ bounds
MaxInFlight  == 1   \* configured maximum of the concurrency gate
MaxDatagrams == 2   \* datagrams with n > 0 the network delivers in one run
MaxRespLen   == 4   \* longest encoded response
MaxAddrs     == 3   \* most configured listen addresses

\* The ingestion loops, one per bound socket, sharing one gate.
Loops   == {1, 2}
TaskIds == 1 .. MaxDatagrams

\* The DNS header size, scaled: shorter packets do not decode.
HdrSize == 2
\* dns.MaxMsgSize, scaled: the length of the loop's read buffer b.
MaxMsgSize == HdrSize + 1

\* The datagrams the network may deliver: a truncated one and a well-formed one.
Truncated  == [i \in 1 .. (HdrSize - 1) |-> 1]
WellFormed == [i \in 1 .. HdrSize |-> 2]
Payloads   == {Truncated, WellFormed}

Zeros(k) == [i \in 1 .. k |-> 0]

VARIABLES
    started,        \* p.started, the listener running flag
    mu,             \* p's RWMutex: the number of read locks held
    sdpc,           \* position of the shutdown writer
    open,           \* open[l]: the socket of loop l is open
    pc,             \* pc[l]: position of loop l in udpPacketLoop
    rd,             \* rd[l]: result of loop l's last read and its packet
    heap,           \* byte buffers: the loops' read buffers and the packets
    tasks,          \* tasks[id]: the goroutine launched for datagram id
    sema,           \* gate slots held (requestGoroutinesSema)
    nextId,         \* next datagram id
    dgram,          \* dgram[id]: the bytes the read returned for datagram id
    lastDropped,    \* the last datagram dropped on a decode error, and its loop
    resp,           \* an invocation of respondUDP
    su              \* createUDPListeners: the configuration, the sockets, the list

loopVars == <<started, mu, sdpc, open, pc, rd, heap, tasks, sema, nextId,
              dgram, lastDropped>>

vars == <<loopVars, resp, su>>

\* Buffer ids: loop l's read buffer b, and the packet made for datagram id.
RB(l)  == l
PB(id) == Cardinality(Loops) + id
BufIds == 1 .. (Cardinality(Loops) + MaxDatagrams)

\* empty: the last read returned no datagram and no error (kept until the next
\* flag check).
NoRead == [n |-> 0, err |-> "none", ref |-> 0, id |-> 0, empty |-> FALSE]
NoTask == [st |-> "none", ref |-> 0, plen |-> 0, conn |-> 0,
           resolved |-> FALSE, wrote |-> 0, rel |-> 0]

\* The peers a query may come from (d.Addr) and the local addresses it may
\* arrive on (d.localIP).
Peers    == {1, 2}
LocalIPs == {1, 2}

NoResp == [pc |-> "idle", packOk |-> FALSE, L |-> 0, n |-> 0, werr |-> "none",
           ret |-> "nil", writes |-> 0,
           addr |-> 0, localIP |-> 0, wAddr |-> 0, wLocal |-> 0]

Addrs == 1 .. MaxAddrs

NoSetup == [cfgBuf |-> 0, addrs |-> 0, i |-> 1, pc |-> "loop",
            sock |-> [a \in Addrs |-> "none"], tried |-> {},
            ucsock |-> 0, ucerr |-> "none", udpListen |-> <<>>, err |-> "none"]

LoopInit ==
    /\ started = TRUE
    /\ mu = 0
    /\ sdpc = "idle"
    /\ open = [l \in Loops |-> TRUE]
    /\ pc = [l \in Loops |-> "top"]
    /\ rd = [l \in Loops |-> NoRead]
    /\ heap = [b \in BufIds |-> IF b \in Loops THEN Zeros(MaxMsgSize) ELSE <<>>]
    /\ tasks = [id \in TaskIds |-> NoTask]
    /\ sema = 0
    /\ nextId = 1
    /\ dgram = [id \in TaskIds |-> <<>>]
    /\ lastDropped = [id |-> 0, conn |-> 0]

Init == LoopInit /\ resp = NoResp /\ su = NoSetup

\* ------------------------------------------------------- concurrency gate
\* requestGoroutinesSema: a counting semaphore of MaxInFlight slots.  acquire
\* suspends the caller while every slot is held; release frees one slot.
SemaCanAcquire(s) == s < MaxInFlight
SemaAcquire(s)    == s + 1
SemaRelease(s)    == s - 1

\* ------------------------------------------------------------ pure helpers
\* copy(dst, src): the first min(len(dst), len(src)) bytes of src over dst.
Copy(dst, src) ==
    [i \in 1 .. Len(dst) |-> IF i <= Len(src) THEN src[i] ELSE dst[i]]

\* packet := b[:n] -- the packet shares the read buffer (no allocation, no copy).
AliasPacket(h, l, id, n) == [ref |-> RB(l), heap |-> h]

\* packet := make([]byte, n); copy(packet, b)
MakePacket(h, l, id, n) ==
    [ref  |-> PB(id),
     heap |-> [h EXCEPT ![PB(id)] = Copy(Zeros(n), h[RB(l)])]]

\* The bytes a task sees through its packet slice.
PacketBytes(t) == SubSeq(heap[tasks[t].ref], 1, tasks[t].plen)

\* msg.Unpack(packet): fails on a packet shorter than a DNS header.
UnpackOk(packet) == Len(packet) >= HdrSize

\* respondUDP without the length check after a successful write.
respondUDPNoShort(packOk, L, n, werr) ==
    IF ~packOk THEN [ret |-> "encode", writes |-> 0]
    ELSE IF n = 0 /\ werr = "closed" THEN [ret |-> "closed", writes |-> 1]
    ELSE IF werr # "none" THEN [ret |-> "decorated", writes |-> 1]
    ELSE [ret |-> "nil", writes |-> 1]

\* respondUDP returning every closed-socket error as it is, whatever was written.
respondUDPClosedAnyN(packOk, L, n, werr) ==
    IF ~packOk THEN [ret |-> "encode", writes |-> 0]
    ELSE IF werr = "closed" THEN [ret |-> "closed", writes |-> 1]
    ELSE IF werr # "none" THEN [ret |-> "decorated", writes |-> 1]
    ELSE IF n # L THEN [ret |-> "short", writes |-> 1]
    ELSE [ret |-> "nil", writes |-> 1]

\* respondUDP: packOk is the outcome of resp.Pack(), L = len(bytes), (n, werr) is
\* what UDPWrite returned.  ret is the error returned ("nil": success), writes
\* the number of socket writes performed.
respondUDP(packOk, L, n, werr) ==
    IF ~packOk THEN [ret |-> "encode", writes |-> 0]
    ELSE IF n = 0 /\ werr = "closed" THEN [ret |-> "closed", writes |-> 1]
    ELSE IF werr # "none" THEN [ret |-> "decorated", writes |-> 1]
    ELSE IF n # L THEN [ret |-> "short", writes |-> 1]
    ELSE [ret |-> "nil", writes |-> 1]

\* What proxyutil.UDPRead may return on loop l's socket: the closed-connection
\* error once the socket is closed; otherwise a datagram (possibly along with an
\* error), an empty read, or an error alone.
ReadOutcomes(l) ==
    IF ~open[l]
    THEN {[n |-> 0, err |-> "closed", data |-> <<>>]}
    ELSE {[n |-> 0, err |-> e, data |-> <<>>] : e \in {"none", "other"}}
         \cup (IF nextId <= MaxDatagrams
               THEN {[n |-> Len(p), err |-> e, data |-> p] :
                        p \in Payloads, e \in {"none", "other"}}
               ELSE {})

\* What proxyutil.UDPWrite may return for L bytes on loop l's socket.
WriteOutcomes(l, L) ==
    IF ~open[l]
    THEN {[n |-> 0, err |-> "closed"]}
    ELSE {[n |-> L, err |-> "none"], [n |-> L - 1, err |-> "none"],
          [n |-> 0, err |-> "other"]}

\* --------------------------------------------------------- udpPacketLoop
\* The flag check skipped: the loop reads whatever the flag says.
LoopCheckIgnoreFlag(l) ==
    /\ pc[l] = "top"
    /\ pc' = [pc EXCEPT ![l] = "read"]
    /\ rd' = [rd EXCEPT ![l] = NoRead]
    /\ UNCHANGED <<started, mu, sdpc, open, heap, tasks, sema, nextId,
                   dgram, lastDropped, resp, su>>

\* p.RLock(); if !p.started { return }; p.RUnlock() -- the read lock is taken
\* while no writer holds the lock (the shutdown writer holds it only within
\* ShutdownSetFlag), and the return leaves it held.
LoopCheck(l) ==
    /\ pc[l] = "top"
    /\ IF ~started
       THEN /\ pc' = [pc EXCEPT ![l] = "returned"]
            /\ mu' = mu + 1
       ELSE /\ pc' = [pc EXCEPT ![l] = "read"]
            /\ mu' = mu
    /\ rd' = [rd EXCEPT ![l] = NoRead]
    /\ UNCHANGED <<started, sdpc, open, heap, tasks, sema, nextId, dgram,
                   lastDropped, resp, su>>

\* The loop enters proxyutil.UDPRead(conn, b, ...) and blocks in it.
LoopRead(l) ==
    /\ pc[l] = "read"
    /\ pc' = [pc EXCEPT ![l] = "reading"]
    /\ UNCHANGED <<started, mu, sdpc, open, rd, heap, tasks, sema, nextId,
                   dgram, lastDropped, resp, su>>

\* On an error the read is retried in place instead of leaving the loop.
AfterReadRetry(err) == IF err # "none" THEN "read" ELSE "top"

\* On an error the loop starts its next iteration instead of leaving.
AfterReadContinue(err) == "top"

\* Only the closed-connection error ends the loop: after any other error it
\* starts its next iteration.
AfterReadOnlyClosed(err) == IF err = "closed" THEN "stopped" ELSE "top"

\* if err != nil { ...; break }, else the next iteration: where the loop goes
\* after the read and the dispatch.
AfterRead(err) == IF err # "none" THEN "stopped" ELSE "top"

\* What the loop keeps of the read once it is past the dispatch.
Kept(err) == IF err # "none" THEN [NoRead EXCEPT !.err = err] ELSE NoRead

\* The datagram is given up when the read also reported an error.
DispatchesNoErr(n, err) == n > 0 /\ err = "none"

\* A task is launched for every read, empty or not.
DispatchesAlways(n, err) == TRUE

\* if n > 0 { ... }: the read is dispatched whatever err is.
Dispatches(n, err) == n > 0

\* UDPRead returns (n, err) having written n bytes into b (a read with n > 0
\* takes the next datagram of the network); on n > 0 the loop makes the packet
\* and goes on to the gate, otherwise to the error check.
LoopReadReturn(l) ==
    /\ pc[l] = "reading"
    /\ \E out \in ReadOutcomes(l) :
          LET h1 == [heap EXCEPT ![RB(l)] = Copy(@, out.data)]
              pk == MakePacket(h1, l, nextId, out.n)
          IN  /\ nextId' = IF out.n > 0 THEN nextId + 1 ELSE nextId
              /\ dgram' = IF out.n > 0
                          THEN [dgram EXCEPT ![nextId] = out.data]
                          ELSE dgram
              /\ IF Dispatches(out.n, out.err)
                 THEN /\ heap' = pk.heap
                      /\ rd' = [rd EXCEPT ![l] = [n |-> out.n, err |-> out.err,
                                                  ref |-> pk.ref, id |-> nextId,
                                                  empty |-> FALSE]]
                      /\ pc' = [pc EXCEPT ![l] = "acquire"]
                 ELSE /\ heap' = h1
                      /\ rd' = [rd EXCEPT ![l] = [Kept(out.err) EXCEPT
                                                     !.empty = (out.err = "none")]]
                      /\ pc' = [pc EXCEPT ![l] = AfterRead(out.err)]
    /\ UNCHANGED <<started, mu, sdpc, open, tasks, sema, lastDropped, resp,
                   su>>

\* The task launched for loop l's packet.
Launched(l) ==
    [st |-> "decode", ref |-> rd[l].ref, plen |-> rd[l].n, conn |-> l,
     resolved |-> FALSE, wrote |-> 0, rel |-> 0]

\* What the loop keeps of a read once its datagram is dispatched: on an error,
\* the error and the datagram that came with it.
Dispatched(r) ==
    IF r.err # "none" THEN [Kept(r.err) EXCEPT !.id = r.id] ELSE NoRead

\* The acquire left out: the task is launched without a slot.
LoopAcquireSkipped(l) ==
    /\ pc[l] = "acquire"
    /\ tasks' = [tasks EXCEPT ![rd[l].id] = Launched(l)]
    /\ rd' = [rd EXCEPT ![l] = Kept(rd[l].err)]
    /\ pc' = [pc EXCEPT ![l] = AfterRead(rd[l].err)]
    /\ UNCHANGED <<started, mu, sdpc, open, heap, sema, nextId, dgram,
                   lastDropped, resp, su>>

\* The acquire does not wait: the slot is taken and the task launched even
\* while every slot is held.
LoopAcquireNoWait(l) ==
    /\ pc[l] = "acquire"
    /\ sema' = SemaAcquire(sema)
    /\ tasks' = [tasks EXCEPT ![rd[l].id] = Launched(l)]
    /\ rd' = [rd EXCEPT ![l] = Dispatched(rd[l])]
    /\ pc' = [pc EXCEPT ![l] = AfterRead(rd[l].err)]
    /\ UNCHANGED <<started, mu, sdpc, open, heap, nextId, dgram, lastDropped,
                   resp, su>>

\* requestGoroutinesSema.acquire(); go func() { p.udpHandlePacket(packet, ...);
\* requestGoroutinesSema.release() }(), then the error check.
LoopAcquire(l) ==
    /\ pc[l] = "acquire"
    /\ SemaCanAcquire(sema)
    /\ sema' = SemaAcquire(sema)
    /\ tasks' = [tasks EXCEPT ![rd[l].id] = Launched(l)]
    /\ rd' = [rd EXCEPT ![l] = Dispatched(rd[l])]
    /\ pc' = [pc EXCEPT ![l] = AfterRead(rd[l].err)]
    /\ UNCHANGED <<started, mu, sdpc, open, heap, nextId, dgram, lastDropped,
                   resp, su>>

LoopNext(l) ==
    \/ LoopCheck(l)
    \/ LoopRead(l)
    \/ LoopReadReturn(l)
    \/ LoopAcquire(l)

\* ------------------------------------------------------- udpHandlePacket
\* The goroutine ends: udpHandlePacket has returned, the slot is released
\* (requestGoroutinesSema.release()) and the packet is garbage.
Released(t) ==
    /\ sema' = SemaRelease(sema)
    /\ heap' = IF tasks[t].ref = PB(t)
               THEN [heap EXCEPT ![PB(t)] = <<>>]
               ELSE heap
    /\ dgram' = [dgram EXCEPT ![t] = <<>>]

\* Of an ended task only the number of its releases is kept.
Ended(task) == [NoTask EXCEPT !.st = "done", !.rel = task.rel + 1]

\* A decode error is ignored: the handler goes on to the resolver.
TaskDecodeIgnoreErr(t) ==
    /\ tasks[t].st = "decode"
    /\ tasks' = [tasks EXCEPT ![t] = [@ EXCEPT !.st = "resolve",
                                               !.resolved = TRUE]]
    /\ UNCHANGED <<started, mu, sdpc, open, pc, rd, heap, sema, nextId, dgram,
                   lastDropped, resp, su>>

\* The release placed at the end of the handler: the return on a decode error
\* leaves without it.
TaskDecodeNoRelease(t) ==
    /\ tasks[t].st = "decode"
    /\ IF UnpackOk(PacketBytes(t))
       THEN tasks' = [tasks EXCEPT ![t] = [@ EXCEPT !.st = "resolve",
                                                    !.resolved = TRUE]]
       ELSE tasks' = [tasks EXCEPT ![t] = [NoTask EXCEPT !.st = "done"]]
    /\ UNCHANGED <<started, mu, sdpc, open, pc, rd, heap, sema, nextId, dgram,
                   lastDropped, resp, su>>

\* On a decode error the handler answers the peer itself, without the resolver,
\* before it returns.
TaskDecodeAnswersMalformed(t) ==
    /\ tasks[t].st = "decode"
    /\ IF UnpackOk(PacketBytes(t))
       THEN tasks' = [tasks EXCEPT ![t] = [@ EXCEPT !.st = "resolve",
                                                    !.resolved = TRUE]]
       ELSE tasks' = [tasks EXCEPT ![t] = [@ EXCEPT !.st = "resolve",
                                                    !.wrote = 1]]
    /\ UNCHANGED <<started, mu, sdpc, open, pc, rd, heap, sema, nextId, dgram,
                   lastDropped, resp, su>>

\* msg.Unpack(packet); on an error the handler returns (and the goroutine
\* releases its slot), otherwise it builds the DNSContext and calls
\* p.handleDNSRequest(d).
TaskDecode(t) ==
    /\ tasks[t].st = "decode"
    /\ IF UnpackOk(PacketBytes(t))
       THEN /\ tasks' = [tasks EXCEPT ![t] = [@ EXCEPT !.st = "resolve",
                                                       !.resolved = TRUE]]
            /\ UNCHANGED <<heap, sema, dgram, lastDropped>>
       ELSE /\ tasks' = [tasks EXCEPT ![t] = Ended(@)]
            /\ Released(t)
            /\ lastDropped' = [id |-> t, conn |-> tasks[t].conn]
    /\ UNCHANGED <<started, mu, sdpc, open, pc, rd, nextId, resp, su>>

\* A failed write closes the socket the datagram came in on.
TaskRespondClosesOnError(t) ==
    /\ tasks[t].st = "resolve"
    /\ tasks[t].wrote = 0
    /\ \E packOk \in BOOLEAN, L \in {HdrSize} :
       \E w \in WriteOutcomes(tasks[t].conn, L) :
          LET r == respondUDP(packOk, L, w.n, w.err)
          IN  /\ r.writes > 0
              /\ tasks' = [tasks EXCEPT ![t] = [@ EXCEPT !.wrote = @ + r.writes]]
              /\ open' = IF r.ret = "nil"
                         THEN open
                         ELSE [open EXCEPT ![tasks[t].conn] = FALSE]
    /\ UNCHANGED <<started, mu, sdpc, pc, rd, heap, sema, nextId, dgram,
                   lastDropped, resp, su>>

\* Inside handleDNSRequest the resolver may send the response with respondUDP
\* (once), on the socket the datagram came in on.
TaskRespond(t) ==
    /\ tasks[t].st = "resolve"
    /\ tasks[t].wrote = 0
    /\ \E packOk \in BOOLEAN, L \in {HdrSize} :
       \E w \in WriteOutcomes(tasks[t].conn, L) :
          LET r == respondUDP(packOk, L, w.n, w.err)
          IN  /\ r.writes > 0
              /\ tasks' = [tasks EXCEPT ![t] = [@ EXCEPT !.wrote = @ + r.writes]]
    /\ UNCHANGED <<started, mu, sdpc, open, pc, rd, heap, sema, nextId, dgram,
                   lastDropped, resp, su>>

\* The task ends without giving its slot back.
TaskResolveReturnNoRelease(t) ==
    /\ tasks[t].st = "resolve"
    /\ tasks' = [tasks EXCEPT ![t] = [NoTask EXCEPT !.st = "done"]]
    /\ UNCHANGED <<started, mu, sdpc, open, pc, rd, heap, sema, nextId, dgram,
                   lastDropped, resp, su>>

\* handleDNSRequest returns (nil or an error, which is only logged) and with
\* it udpHandlePacket; the goroutine releases its slot.
TaskResolveReturn(t) ==
    /\ tasks[t].st = "resolve"
    /\ tasks' = [tasks EXCEPT ![t] = Ended(@)]
    /\ Released(t)
    /\ UNCHANGED <<started, mu, sdpc, open, pc, rd, nextId, lastDropped, resp,
                   su>>

TaskNext(t) ==
    \/ TaskDecode(t)
    \/ TaskRespond(t)
    \/ TaskResolveReturn(t)

\* --------------------------------------------------------------- shutdown
\* The shutdown writer: p.Lock(); p.started = false; p.Unlock() ...
ShutdownSetFlag ==
    /\ sdpc = "idle"
    /\ mu = 0
    /\ started' = FALSE
    /\ sdpc' = "closing"
    /\ UNCHANGED <<mu, open, pc, rd, heap, tasks, sema, nextId, dgram,
                   lastDropped, resp, su>>

\* ... and the close of each socket, in the order of the listener list.
ShutdownClose(l) ==
    /\ sdpc = "closing"
    /\ open[l]
    /\ \A k \in Loops : k < l => ~open[k]
    /\ open' = [open EXCEPT ![l] = FALSE]
    /\ UNCHANGED <<started, mu, sdpc, pc, rd, heap, tasks, sema, nextId,
                   dgram, lastDropped, resp, su>>

ShutdownNext ==
    \/ ShutdownSetFlag
    \/ \E l \in Loops : ShutdownClose(l)

\* The shutdown writer has set the flag and closed every socket.
ShutdownDone == sdpc = "closing" /\ \A l \in Loops : ~open[l]

\* ------------------------------------------------------------------ Spec
Next ==
    \/ \E l \in Loops : LoopNext(l)
    \/ \E t \in TaskIds : TaskNext(t)
    \/ ShutdownNext

Spec == Init /\ [][Next]_vars

\* The scheduler runs every goroutine that can take a step; a goroutine
\* waiting for a slot gets one if slots keep being released (the waiters of a
\* channel are served in order).
LoopFair ==
    \A l \in Loops :
       /\ WF_vars(LoopCheck(l))
       /\ WF_vars(LoopRead(l))
       /\ SF_vars(LoopAcquire(l))

\* Every resolver call returns.
SpecFair ==
    /\ Spec
    /\ LoopFair
    /\ \A t \in TaskIds : WF_vars(TaskDecode(t)) /\ WF_vars(TaskResolveReturn(t))

\* A read on a closed socket returns; a resolver call may never return.
SpecShutdown ==
    /\ Spec
    /\ LoopFair
    /\ \A l \in Loops : WF_vars(~open[l] /\ LoopReadReturn(l))
    /\ \A t \in TaskIds : WF_vars(TaskDecode(t))

TypeOK ==
    /\ started \in BOOLEAN
    /\ mu \in 0 .. Cardinality(Loops)
    /\ sdpc \in {"idle", "closing"}
    /\ pc \in [Loops -> {"top", "read", "reading", "acquire", "stopped",
                         "returned"}]
    /\ nextId \in 1 .. (MaxDatagrams + 1)
    /\ \A t \in TaskIds : tasks[t].st \in {"none", "decode", "resolve", "done"}


\* ------------------------------------------------------------ respondUDP
\* respondUDP is entered with the context of a query (its peer d.Addr, its
\* local address d.localIP) and resp.Pack() returns: on an encode error the
\* function returns it decorated, with no write.
RespondPack ==
    /\ resp.pc = "idle"
    /\ \E packOk \in BOOLEAN, L \in 1 .. MaxRespLen, a \in Peers, ip \in LocalIPs :
          LET d == [NoResp EXCEPT !.addr = a, !.localIP = ip]
          IN  IF packOk
              THEN resp' = [d EXCEPT !.pc = "packed", !.packOk = TRUE, !.L = L]
              ELSE LET r == respondUDP(FALSE, 0, 0, "none")
                   IN  resp' = [d EXCEPT !.pc = "returned", !.ret = r.ret,
                                         !.writes = r.writes]
    /\ UNCHANGED <<loopVars, su>>

\* proxyutil.UDPWrite(bytes, conn, rAddr, d.localIP) returns (n, err).
RespondWrite ==
    /\ resp.pc = "packed"
    /\ \E n \in 0 .. MaxRespLen, werr \in {"none", "closed", "other"} :
          resp' = [resp EXCEPT !.pc = "written", !.n = n, !.werr = werr,
                               !.writes = @ + 1,
                               !.wAddr = resp.addr, !.wLocal = resp.localIP]
    /\ UNCHANGED <<loopVars, su>>

\* A short write is sent again, once, before the function returns.
RespondReturnRetry ==
    /\ resp.pc = "written"
    /\ LET r == respondUDP(resp.packOk, resp.L, resp.n, resp.werr)
       IN  IF r.ret = "short" /\ resp.writes < 2
           THEN resp' = [resp EXCEPT !.pc = "packed"]
           ELSE resp' = [resp EXCEPT !.pc = "returned", !.ret = r.ret]
    /\ UNCHANGED <<loopVars, su>>

\* The checks after the write, and the return.
RespondReturn ==
    /\ resp.pc = "written"
    /\ LET r == respondUDP(resp.packOk, resp.L, resp.n, resp.werr)
       IN  resp' = [resp EXCEPT !.pc = "returned", !.ret = r.ret]
    /\ UNCHANGED <<loopVars, su>>

\* The next invocation.
RespondAgain ==
    /\ resp.pc = "returned"
    /\ resp' = NoResp
    /\ UNCHANGED <<loopVars, su>>

RespondNext ==
    \/ RespondPack
    \/ RespondWrite
    \/ RespondReturn
    \/ RespondAgain

SpecRespond == Init /\ [][RespondNext]_vars

\* ------------------------------------------------- createUDPListeners
\* The configuration: p.Config.UDPBufferSize and the number of addresses in
\* p.UDPListenAddr.
SetupInit ==
    /\ LoopInit
    /\ resp = NoResp
    /\ \E buf \in {-1, 0, 1}, k \in 0 .. MaxAddrs :
          su = [NoSetup EXCEPT !.cfgBuf = buf, !.addrs = k]

\* for _, a := range p.UDPListenAddr: the call of p.udpCreate(a), or the
\* return of nil after the last address.
CreateLoop ==
    /\ su.pc = "loop"
    /\ IF su.i <= su.addrs
       THEN su' = [su EXCEPT !.pc = "listen", !.ucsock = 0, !.ucerr = "none"]
       ELSE su' = [su EXCEPT !.pc = "done"]
    /\ UNCHANGED <<loopVars, resp>>

\* net.ListenUDP("udp", udpAddr): on an error udpCreate returns it decorated.
UdpListen ==
    /\ su.pc = "listen"
    /\ \E ok \in BOOLEAN :
          IF ok
          THEN su' = [su EXCEPT !.pc = "setbuf", !.sock[su.i] = "open"]
          ELSE su' = [su EXCEPT !.pc = "created", !.ucerr = "listen"]
    /\ UNCHANGED <<loopVars, resp>>

\* if p.Config.UDPBufferSize > 0 { udpListen.SetReadBuffer(...) }: on an error
\* the socket is closed and the error returned decorated.
UdpSetBuf ==
    /\ su.pc = "setbuf"
    /\ IF su.cfgBuf > 0
       THEN \E ok \in BOOLEAN :
               IF ok
               THEN su' = [su EXCEPT !.pc = "setopt", !.tried = @ \cup {su.i}]
               ELSE su' = [su EXCEPT !.pc = "created", !.tried = @ \cup {su.i},
                                     !.sock[su.i] = "closed", !.ucerr = "setbuf"]
       ELSE su' = [su EXCEPT !.pc = "setopt"]
    /\ UNCHANGED <<loopVars, resp>>

\* The error of UDPSetOptions is returned with the socket left open.
UdpSetOptNoClose ==
    /\ su.pc = "setopt"
    /\ \E ok \in BOOLEAN :
          IF ok
          THEN su' = [su EXCEPT !.pc = "created", !.ucsock = su.i]
          ELSE su' = [su EXCEPT !.pc = "created", !.ucerr = "setopt"]
    /\ UNCHANGED <<loopVars, resp>>

\* proxyutil.UDPSetOptions(udpListen): on an error the socket is closed and
\* the error returned decorated; otherwise udpCreate returns the socket.
UdpSetOpt ==
    /\ su.pc = "setopt"
    /\ \E ok \in BOOLEAN :
          IF ok
          THEN su' = [su EXCEPT !.pc = "created", !.ucsock = su.i]
          ELSE su' = [su EXCEPT !.pc = "created", !.sock[su.i] = "closed",
                                !.ucerr = "setopt"]
    /\ UNCHANGED <<loopVars, resp>>

\* An address whose udpCreate failed is skipped: the error is kept for the
\* end and the next address is bound.
CreateAppendSkipFailed ==
    /\ su.pc = "created"
    /\ IF su.ucerr # "none"
       THEN su' = [su EXCEPT !.pc = "loop", !.i = @ + 1, !.err = su.ucerr]
       ELSE su' = [su EXCEPT !.pc = "loop", !.i = @ + 1,
                             !.udpListen = Append(@, su.ucsock)]
    /\ UNCHANGED <<loopVars, resp>>

\* udpCreate has returned: if err != nil { return err }, else the socket is
\* appended to p.udpListen.
CreateAppend ==
    /\ su.pc = "created"
    /\ IF su.ucerr # "none"
       THEN su' = [su EXCEPT !.pc = "done", !.err = su.ucerr]
       ELSE su' = [su EXCEPT !.pc = "loop", !.i = @ + 1,
                             !.udpListen = Append(@, su.ucsock)]
    /\ UNCHANGED <<loopVars, resp>>

SetupNext ==
    \/ CreateLoop
    \/ UdpListen
    \/ UdpSetBuf
    \/ UdpSetOpt
    \/ CreateAppend

SpecSetup == SetupInit /\ [][SetupNext]_vars

\* ------------------------------------------------------------ properties
\* The tasks launched and not yet ended, and those inside the resolver.
Running   == {t \in TaskIds : tasks[t].st \in {"decode", "resolve"}}
Resolving == {t \in TaskIds : tasks[t].st = "resolve"}

\* C1: whatever the loops read, the slots held stay within 0 .. MaxInFlight
\* and never more than MaxInFlight tasks (hence resolver calls) run at once.
C1_GateBounded ==
    /\ sema \in 0 .. MaxInFlight
    /\ Cardinality(Running) <= MaxInFlight
    /\ Cardinality(Resolving) <= MaxInFlight

\* The gate is saturated by running tasks and a loop waits with a datagram.
C1_Witness ==
    /\ Cardinality(Running) = MaxInFlight
    /\ sema = MaxInFlight
    /\ \E l \in Loops : pc[l] = "acquire"

\* C2: every acquire is matched by exactly one release, made by the task it was
\* made for when that task ends, on every exit path: the slots held are the
\* tasks running, a running task has not released, an ended one released once.
C2_AcquireReleasePaired ==
    /\ sema = Cardinality(Running)
    /\ \A t \in TaskIds :
          /\ tasks[t].st \in {"none", "decode", "resolve"} => tasks[t].rel = 0
          /\ tasks[t].st = "done" => tasks[t].rel = 1

\* A task ended on a decode error and another one ended too; nothing runs and
\* no slot is held.
C2_Witness ==
    /\ lastDropped.id # 0
    /\ \E t \in TaskIds : t # lastDropped.id /\ tasks[t].st = "done"
    /\ tasks[lastDropped.id].st = "done"
    /\ Running = {}
    /\ sema = 0

\* C3: a task's packet is a buffer of its own, of length n, holding the n bytes
\* of the datagram it was launched for, while it waits at the gate and while it
\* runs, whatever was read into the read buffer since.
C3_PacketIsDatagram ==
    /\ \A t \in Running :
          /\ tasks[t].ref = PB(t)
          /\ Len(heap[tasks[t].ref]) = tasks[t].plen
          /\ PacketBytes(t) = dgram[t]
    /\ \A l \in Loops :
          pc[l] = "acquire" =>
             /\ rd[l].ref = PB(rd[l].id)
             /\ Len(heap[rd[l].ref]) = rd[l].n
             /\ heap[rd[l].ref] = dgram[rd[l].id]

\* A task is running while its loop's read buffer already holds other bytes.
C3_Witness ==
    \E t \in Running :
       /\ SubSeq(heap[RB(tasks[t].conn)], 1, tasks[t].plen) # dgram[t]
       /\ PacketBytes(t) = dgram[t]

\* C4 as claimed: once the flag is false no loop issues a read.
C4_NoReadAfterStop ==
    [][\A l \in Loops : ~started => ~(pc[l] = "read" /\ pc'[l] = "reading")]_vars

\* C4, amended: a loop that checks the flag once it is false returns without
\* reading, and a loop gets to a read only through a check that saw the flag
\* true; so after the flag is cleared a loop issues at most the one read whose
\* check came before.
C4_NoReadAfterCheck ==
    [][\A l \in Loops :
          /\ (~started /\ pc[l] = "top") => pc'[l] \in {"top", "returned"}
          /\ (pc'[l] = "read" /\ pc[l] # "read") => (pc[l] = "top" /\ started)
          /\ pc[l] = "returned" => pc'[l] = "returned"]_vars

\* The flag is false, one loop has returned on it and another, past its check,
\* is about to read.
C4_Witness ==
    /\ ~started
    /\ \E l \in Loops : pc[l] = "returned"
    /\ \E l \in Loops : pc[l] = "read"

\* C5: a read that returns on a closed socket returns the closed-connection
\* error with n = 0, no task is launched for it, and the loop stops there for
\* good.
C5_ClosedReadExits ==
    [][\A l \in Loops :
          /\ (pc[l] = "reading" /\ ~open[l] /\ pc'[l] # "reading") =>
                /\ pc'[l] = "stopped"
                /\ rd'[l].err = "closed" /\ rd'[l].n = 0
                /\ tasks' = tasks /\ sema' = sema /\ nextId' = nextId
          /\ pc[l] = "stopped" => pc'[l] = "stopped"]_vars

\* A loop stopped on the closed-connection error.
C5_Witness == \E l \in Loops : pc[l] = "stopped" /\ rd[l].err = "closed"

\* C6: a task whose datagram does not decode never enters the resolver and
\* never writes; its end changes nothing of the loops, the sockets or the flag.
C6_MalformedDropped ==
    /\ [](\A t \in Running :
             ~UnpackOk(dgram[t]) =>
                tasks[t].st = "decode" /\ ~tasks[t].resolved /\ tasks[t].wrote = 0)
    /\ [][\A t \in TaskIds :
             (tasks[t].st = "decode" /\ ~UnpackOk(dgram[t])
                 /\ tasks'[t].st # "decode") =>
                /\ tasks'[t].st = "done"
                /\ pc' = pc /\ rd' = rd /\ open' = open /\ started' = started]_vars

\* After a datagram of a loop was dropped, a later datagram of the same loop is
\* in the resolver.
C6_Witness ==
    \E t \in Resolving :
       /\ lastDropped.conn = tasks[t].conn
       /\ 0 < lastDropped.id /\ lastDropped.id < t
       /\ UnpackOk(dgram[t])


\* C7: respondUDP returns nil exactly when the encode succeeded, the write
\* reported no error and wrote all L bytes; a partial write is an error.
C7_NilIffWholeWrite ==
    resp.pc = "returned" =>
       (resp.ret = "nil" <=>
           (resp.packOk /\ resp.werr = "none" /\ resp.n = resp.L))

\* A write without error of fewer bytes than encoded was reported as the
\* short-write error.
C7_Witness ==
    /\ resp.pc = "returned"
    /\ resp.packOk /\ resp.werr = "none"
    /\ 0 < resp.n /\ resp.n < resp.L
    /\ resp.ret = "short"

\* C9: udpCreate returns an open socket and no error, or an error and no
\* socket: none was made if the bind failed, and the one made is closed if
\* SetReadBuffer (called only on a size > 0) or UDPSetOptions failed.
C9_SocketOrError ==
    /\ su.tried # {} => su.cfgBuf > 0
    /\ su.pc = "created" =>
          /\ su.ucerr = "none" => (su.ucsock = su.i /\ su.sock[su.i] = "open")
          /\ su.ucerr # "none" => (su.ucsock = 0 /\ su.sock[su.i] # "open")
          /\ su.ucerr = "listen" => su.sock[su.i] = "none"
          /\ su.ucerr \in {"setbuf", "setopt"} => su.sock[su.i] = "closed"
          /\ su.ucerr = "setbuf" => su.cfgBuf > 0
          /\ (su.cfgBuf > 0 /\ su.ucerr # "listen") => su.i \in su.tried

\* udpCreate returned the UDPSetOptions error after a successful SetReadBuffer,
\* for an address after one that was set up.
C9_Witness ==
    /\ su.pc = "created"
    /\ su.ucerr = "setopt"
    /\ su.i \in su.tried
    /\ su.i > 1
    /\ su.sock[su.i] = "closed"


\* C8: with more datagrams than slots, every datagram read is dispatched and
\* its task ends, and never more than MaxInFlight resolver calls run at once.
C8_AllHandled ==
    /\ \A d \in TaskIds : (d < nextId) ~> (tasks[d].st = "done")
    /\ [](Cardinality(Resolving) <= MaxInFlight)

\* All MaxDatagrams (more than MaxInFlight) datagrams were read and handled.
C8_Witness ==
    /\ MaxDatagrams > MaxInFlight
    /\ nextId = MaxDatagrams + 1
    /\ \A d \in TaskIds : tasks[d].st = "done"

Terminated(l) == pc[l] \in {"stopped", "returned"}

\* C10 as claimed: once shutdown is done every loop terminates, resolver calls
\* returning or not.
C10_LoopsTerminate ==
    \A l \in Loops : ShutdownDone ~> Terminated(l)

\* C10, amended: once shutdown is done a loop that is not waiting at the gate
\* terminates, and a loop waiting at the gate terminates unless the gate stays
\* saturated by resolver calls.
C10_TerminatesUnlessGated ==
    \A l \in Loops :
       /\ (ShutdownDone /\ pc[l] # "acquire") ~> Terminated(l)
       /\ ShutdownDone ~>
             (\/ Terminated(l)
              \/ /\ pc[l] = "acquire"
                 /\ ~SemaCanAcquire(sema)
                 /\ Cardinality(Resolving) = MaxInFlight)

\* Shutdown is done, one loop has stopped on the closed-connection error of the
\* read it was suspended in, another waits at the saturated gate.
C10_Witness ==
    /\ ShutdownDone
    /\ \E l \in Loops : pc[l] = "stopped" /\ rd[l].err = "closed"
    /\ \E l \in Loops : pc[l] = "acquire" /\ ~SemaCanAcquire(sema)


\* C11: a read that returns a datagram takes the loop to the gate with a copy
\* of it, whatever error came along; the loop leaves the gate only by launching
\* the task of that datagram, once, and only then stops on the error of the
\* read (or goes on without one).
C11_DispatchBeforeExit ==
    [][\A l \in Loops :
          /\ (pc[l] = "reading" /\ pc'[l] # "reading" /\ nextId' # nextId) =>
                /\ pc'[l] = "acquire"
                /\ rd'[l].id = nextId /\ rd'[l].n = Len(dgram'[nextId])
                /\ heap'[rd'[l].ref] = dgram'[nextId]
                /\ tasks' = tasks
          /\ (pc[l] = "acquire" /\ pc'[l] # "acquire") =>
                /\ tasks[rd[l].id].st = "none"
                /\ tasks'[rd[l].id] = Launched(l)
                /\ \A t \in TaskIds \ {rd[l].id} : tasks'[t] = tasks[t]
                /\ pc'[l] = (IF rd[l].err # "none" THEN "stopped" ELSE "top")
          /\ \A t \in TaskIds :
                (tasks'[t].st = "decode" /\ tasks[t].st # "decode") =>
                   tasks[t].st = "none"]_vars

\* A loop has stopped on the error that came with a datagram, and the task of
\* that datagram is running on the loop's socket.
C11_Witness ==
    \E l \in Loops :
       /\ pc[l] = "stopped" /\ rd[l].err = "other" /\ rd[l].id # 0
       /\ tasks[rd[l].id].st \in {"decode", "resolve"}
       /\ tasks[rd[l].id].conn = l


\* Loop l launches task t in this step.
Launches(l, t) ==
    tasks[t].st = "none" /\ tasks'[t].st # "none" /\ tasks'[t].conn = l

\* Loop l's last read returned an error.
ReadFailed(l) == rd[l].err # "none"

\* C12 as claimed: once a read of a loop has returned an error the loop issues
\* no read, launches no task and stays where it is; the tasks running on its
\* socket end and release their slots.
C12_TerminalOnError ==
    /\ [][\A l \in Loops :
             ReadFailed(l) =>
                /\ pc'[l] \notin {"top", "read", "reading"}
                /\ \A t \in TaskIds : ~Launches(l, t)]_vars
    /\ \A t \in TaskIds :
          (t \in Running /\ ReadFailed(tasks[t].conn)) ~>
             (tasks[t].st = "done" /\ tasks[t].rel = 1)

\* C12, amended: once a read of a loop has returned an error (of either kind)
\* the loop issues no read and launches no task but the one of the datagram
\* that read returned; it is then stopped and stays so.  The tasks running on
\* its socket end and release their slots.
C12_TerminalAfterDispatch ==
    /\ [][\A l \in Loops :
             /\ ReadFailed(l) =>
                   /\ pc[l] \in {"acquire", "stopped"}
                   /\ pc'[l] \in {"acquire", "stopped"}
                   /\ rd'[l].err = rd[l].err
                   /\ \A t \in TaskIds :
                         Launches(l, t) => (pc[l] = "acquire" /\ t = rd[l].id)
             /\ (pc[l] = "reading" /\ rd'[l].err # "none") =>
                   pc'[l] = (IF nextId' # nextId THEN "acquire" ELSE "stopped")
             /\ pc[l] = "stopped" =>
                   /\ ReadFailed(l)
                   /\ pc'[l] = "stopped"
                   /\ \A t \in TaskIds : ~Launches(l, t)]_vars
    /\ \A t \in TaskIds :
          (t \in Running /\ ReadFailed(tasks[t].conn)) ~>
             (tasks[t].st = "done" /\ tasks[t].rel = 1)

\* A loop has stopped on an error that came with no datagram while a task it
\* launched before is still inside the resolver.
C12_Witness ==
    \E l \in Loops :
       /\ pc[l] = "stopped" /\ rd[l].err = "other" /\ rd[l].id = 0
       /\ \E t \in Resolving : tasks[t].conn = l


\* Task t takes a step.
TaskSteps(t) == tasks[t].st \in {"decode", "resolve"} /\ tasks'[t] # tasks[t]

\* C13: a step of a task, whatever its outcome (the decode fails, the write of
\* the response succeeds or fails, the resolver returns nil or an error),
\* leaves the loops, the flag, the lock, the sockets, the read buffers and the
\* other tasks with their packets as they are; the gate count changes only by
\* the one release of a task that ends.
C13_TaskOutcomeFrame ==
    [][\A t \in TaskIds :
          TaskSteps(t) =>
             /\ pc' = pc /\ rd' = rd
             /\ started' = started /\ mu' = mu /\ sdpc' = sdpc
             /\ open' = open
             /\ \A u \in TaskIds \ {t} : tasks'[u] = tasks[u]
             /\ \A b \in BufIds \ {PB(t)} : heap'[b] = heap[b]
             /\ sema' = (IF tasks'[t].st = "done" THEN sema - 1 ELSE sema)
             /\ tasks'[t].rel = (IF tasks'[t].st = "done" THEN 1 ELSE 0)]_vars

\* A datagram of a loop was dropped on a decode error and a task has written on
\* the same socket, still open; the listener runs and the loop is in its read.
C13_Witness ==
    /\ lastDropped.id # 0
    /\ started /\ open[lastDropped.conn]
    /\ pc[lastDropped.conn] = "reading"
    /\ \E t \in Resolving :
          tasks[t].conn = lastDropped.conn /\ tasks[t].wrote = 1


\* The loops stalled at the gate, each holding the copy of one datagram, and
\* the packets alive.
Waiting == {l \in Loops : pc[l] = "acquire"}
Alive   == {id \in TaskIds : heap[PB(id)] # <<>>}

\* C14: a loop at the saturated gate stays there, reading nothing, until a
\* slot is released, and leaves only by taking a free slot.  The packets alive
\* are those of the running tasks and one per stalled loop, so there are never
\* more than MaxInFlight plus the number of loops.
C14_Backpressure ==
    /\ [](/\ Alive = Running \cup {rd[l].id : l \in Waiting}
          /\ \A l \in Waiting : rd[l].id \notin Running
          /\ \A k, l \in Waiting : rd[k].id = rd[l].id => k = l
          /\ Cardinality(Running) <= MaxInFlight
          /\ Cardinality(Alive) = Cardinality(Running) + Cardinality(Waiting)
          /\ Cardinality(Alive) <= MaxInFlight + Cardinality(Loops))
    /\ [][\A l \in Loops :
             /\ (pc[l] = "acquire" /\ ~SemaCanAcquire(sema) /\ sema' >= sema) =>
                   (pc'[l] = "acquire" /\ rd'[l] = rd[l])
             /\ (pc[l] = "acquire" /\ pc'[l] # "acquire") =>
                   (SemaCanAcquire(sema) /\ sema' = sema + 1)
             /\ pc'[l] = "reading" => pc[l] \in {"read", "reading"}]_vars

\* The gate is saturated, a loop is stalled with its copy of a datagram, and
\* one packet more than MaxInFlight is alive.
C14_Witness ==
    /\ ~SemaCanAcquire(sema)
    /\ \E l \in Waiting : heap[PB(rd[l].id)] = dgram[rd[l].id]
    /\ Cardinality(Alive) = MaxInFlight + 1


\* The order of the steps of one task.
StepOrder ==
    {<<"none", "decode">>, <<"decode", "resolve">>, <<"decode", "done">>,
     <<"resolve", "done">>}

\* C15: a task decodes, then is inside the resolver, then ends, each once; it
\* enters the resolver only from a decode that succeeded, without having
\* written; it writes only while inside the resolver and holding its slot, and
\* once.
C15_DecodeResolveRespond ==
    /\ [](\A t \in TaskIds :
             /\ tasks[t].wrote \in {0, 1}
             /\ tasks[t].wrote > 0 =>
                   (tasks[t].st = "resolve" /\ UnpackOk(dgram[t]))
             /\ tasks[t].resolved <=> tasks[t].st = "resolve"
             /\ tasks[t].st = "resolve" => (tasks[t].rel = 0 /\ sema > 0))
    /\ [][\A t \in TaskIds :
             /\ tasks'[t].st # tasks[t].st =>
                   <<tasks[t].st, tasks'[t].st>> \in StepOrder
             /\ (tasks'[t].st = "resolve" /\ tasks[t].st # "resolve") =>
                   /\ UnpackOk(PacketBytes(t))
                   /\ tasks[t].wrote = 0 /\ tasks'[t].wrote = 0
             /\ tasks'[t].wrote > tasks[t].wrote =>
                   /\ tasks[t].st = "resolve" /\ tasks'[t].st = "resolve"
                   /\ tasks[t].wrote = 0 /\ tasks'[t].wrote = 1]_vars

\* A task that decoded a well-formed datagram is inside the resolver, holds
\* its slot and has written its response.
C15_Witness ==
    \E t \in Resolving :
       /\ tasks[t].resolved /\ UnpackOk(dgram[t])
       /\ tasks[t].wrote = 1 /\ tasks[t].rel = 0
       /\ sema > 0


\* C16: an invocation of respondUDP writes at most once: once, to the peer of
\* the query and from the local address it arrived on, when the encode
\* succeeded, whatever the write then reported; not at all when the encode
\* failed, and then the encode error is what it returns.
C16_OneWrite ==
    /\ resp.writes \in {0, 1}
    /\ resp.writes = 1 =>
          (resp.packOk /\ resp.wAddr = resp.addr /\ resp.wLocal = resp.localIP)
    /\ resp.pc = "returned" =>
          /\ resp.packOk => (resp.writes = 1 /\ resp.ret # "encode")
          /\ ~resp.packOk => (resp.writes = 0 /\ resp.ret = "encode")

\* respondUDP has returned the decorated error of a failed write to the second
\* peer, having written once.
C16_Witness ==
    /\ resp.pc = "returned"
    /\ resp.ret = "decorated" /\ resp.werr = "other"
    /\ resp.writes = 1
    /\ resp.addr = 2 /\ resp.wAddr = 2


\* C17: after a write that reported (n, werr), respondUDP returns the
\* closed-socket error as it is exactly when n = 0 and werr is that error; a
\* decorated error for any other werr, the closed-socket one with n > 0
\* included; and the short-write error when there is no werr and n is not the
\* encoded length.
C17_WriteErrorPriority ==
    (resp.pc = "returned" /\ resp.packOk) =>
       /\ (resp.n = 0 /\ resp.werr = "closed") => resp.ret = "closed"
       /\ (resp.werr = "closed" /\ resp.n > 0) => resp.ret = "decorated"
       /\ resp.werr = "other" => resp.ret = "decorated"
       /\ (resp.werr = "none" /\ resp.n # resp.L) => resp.ret = "short"
       /\ resp.ret = "closed" => (resp.n = 0 /\ resp.werr = "closed")
       /\ resp.ret = "short" => resp.werr = "none"

\* A write that reported the closed-socket error with all bytes written was
\* returned decorated.
C17_Witness ==
    /\ resp.pc = "returned" /\ resp.packOk
    /\ resp.werr = "closed" /\ resp.n = resp.L
    /\ resp.ret = "decorated"


\* C18: a loop holds the read lock only within its flag check (one step of
\* the loop): whether the loops are about to check, in their read, at the gate
\* or terminated, no read lock is held and the lock is free for a writer.
C18_NoLockOutsideCheck == mu = 0


\* The tasks launched so far, and those that have released their slot.
Started  == {t \in TaskIds : tasks[t].st # "none"}
Finished == {t \in TaskIds : tasks[t].rel = 1}

\* C19: the datagrams read so far (the reads with n > 0) are the tasks launched
\* plus the one each loop at the gate waits with, and the slots acquired so far
\* (held or released) are the tasks launched.  A read with n = 0 launches
\* nothing and takes no slot: without an error the loop is back at the top of
\* its iteration.  A slot is taken only by a loop launching the task of its
\* datagram.
C19_AcquireLaunchPerDatagram ==
    /\ [](/\ nextId - 1 = Cardinality(Started) + Cardinality(Waiting)
          /\ \A id \in TaskIds :
                id < nextId <=>
                   (id \in Started \/ \E l \in Waiting : rd[l].id = id)
          /\ sema + Cardinality(Finished) = Cardinality(Started))
    /\ [][\A l \in Loops :
             /\ (pc[l] = "reading" /\ pc'[l] # "reading" /\ nextId' = nextId) =>
                   /\ tasks' = tasks /\ sema' = sema
                   /\ pc'[l] = (IF rd'[l].err # "none" THEN "stopped" ELSE "top")
                   /\ rd'[l].id = 0
                   /\ rd'[l].empty <=> rd'[l].err = "none"
             /\ (pc[l] = "reading" /\ pc'[l] # "reading" /\ nextId' # nextId) =>
                   (pc'[l] = "acquire" /\ nextId' = nextId + 1)
             /\ \A t \in TaskIds :
                   Launches(l, t) =>
                      (pc[l] = "acquire" /\ t = rd[l].id /\ sema' = sema + 1)
             /\ (pc[l] = "acquire" /\ sema' > sema /\ pc'[l] # pc[l]) =>
                   Launches(l, rd[l].id)]_vars
    /\ [][sema' > sema => \E l \in Waiting : Launches(l, rd[l].id)]_vars

\* Two datagrams have been read: the task of one is running and a loop waits
\* at the gate with the other, while the other loop is back at the top of its
\* iteration after a read that returned nothing.
C19_Witness ==
    /\ nextId = 3
    /\ Cardinality(Started) = 1 /\ Cardinality(Running) = 1
    /\ Cardinality(Waiting) = 1
    /\ \E l \in Loops : pc[l] = "top" /\ rd[l].empty


\* The sockets recorded in p.udpListen.
Listed == {su.udpListen[k] : k \in 1 .. Len(su.udpListen)}

\* C20: the addresses are tried in order, none beyond the one being tried; when
\* createUDPListeners has returned, the list holds the sockets of the
\* addresses before the first failure, in order, and these are all the open
\* sockets; no address after a failed one was bound; without an error there is
\* one socket per address.
C20_ListenersInOrder ==
    /\ \A a \in Addrs : su.sock[a] # "none" => (a <= su.i /\ a <= su.addrs)
    /\ su.udpListen = [k \in 1 .. Len(su.udpListen) |-> k]
    /\ su.pc = "done" =>
          /\ \A a \in Addrs : su.sock[a] = "open" <=> a \in Listed
          /\ su.err = "none" => Len(su.udpListen) = su.addrs
          /\ su.err # "none" =>
                /\ su.i <= su.addrs
                /\ Len(su.udpListen) = su.i - 1
                /\ su.sock[su.i] # "open"
                /\ \A a \in Addrs : a > su.i => su.sock[a] = "none"

\* createUDPListeners has returned the error of the second of three
\* addresses: the first socket is listed, the third address was not bound.
C20_Witness ==
    /\ su.pc = "done" /\ su.err # "none"
    /\ su.addrs = 3 /\ su.i = 2
    /\ su.udpListen = <<1>> /\ su.sock[1] = "open"
    /\ su.sock[3] = "none"

=============================================================================
